---- MODULE Spec2Model ----
(***************************************************************************)
(* Payload outcome diagnosis of the ATLAS pilot:                           *)
(*   pilot/user/atlas/diagnose.py   interpret and the functions it calls    *)
(*   pilot/user/atlas/jobmetrics.py get_job_metrics, add_features           *)
(*   pilot/control/monitor.py       control                                 *)
(*                                                                         *)
(* Text is modelled as a sequence of tokens (pieces of text); a Python     *)
(* value is a tagged record, so that int(), truthiness and '%d' % x can be *)
(* computed the way Python computes them.                                  *)
(***************************************************************************)
EXTENDS Integers, Sequences, FiniteSets, TLC

VARIABLES wd, job, errors, pc, exit_code, npass, raised, recorded, assigned,
          consulted, metrics, snap, fin, fout, mon

vars == <<wd, job, errors, pc, exit_code, npass, raised, recorded, assigned,
          consulted, metrics, snap, fin, fout, mon>>

(* ---------------------------------------------------------------------- *)
(* Bounds of the model                                                     *)
(* ---------------------------------------------------------------------- *)
MaxPasses == 2
MaxTail == 2
MaxErrors == 2
MaxEvents == 1
MaxFiles == 3
MaxTime == 3
MaxTokens == 3
MaxLines == 3
MaxCores == 2
MaxLifetime == 3
MaxElapsed == 3

(* ---------------------------------------------------------------------- *)
(* Python values                                                           *)
(* ---------------------------------------------------------------------- *)
IntV(n) == [t |-> "int", n |-> n]
NumStr(n) == [t |-> "numstr", n |-> n]
BadStr == [t |-> "str", n |-> 0]
EmptyStr == [t |-> "emptystr", n |-> 0]
None == [t |-> "none", n |-> 0]
Missing == [t |-> "missing", n |-> 0]
\* a string such as '0.0' or '2.5', and a float: n counts tenths
DecStr(n) == [t |-> "decstr", n |-> n]
FloatV(n) == [t |-> "float", n |-> n]

Truthy(v) ==
    CASE v.t = "int" -> v.n # 0
      [] v.t = "float" -> v.n # 0
      [] v.t = "numstr" -> TRUE
      [] v.t = "decstr" -> TRUE
      [] v.t = "str" -> TRUE
      [] OTHER -> FALSE

\* int(v): "ok" with the number, or the exception Python raises
IntOf(v) ==
    CASE v.t = "int" -> [exc |-> "ok", n |-> v.n]
      [] v.t = "float" -> [exc |-> "ok", n |-> v.n \div 10]
      [] v.t = "numstr" -> [exc |-> "ok", n |-> v.n]
      [] v.t = "decstr" -> [exc |-> "ValueError", n |-> 0]
      [] v.t = "str" -> [exc |-> "ValueError", n |-> 0]
      [] v.t = "emptystr" -> [exc |-> "ValueError", n |-> 0]
      [] OTHER -> [exc |-> "TypeError", n |-> 0]

\* float(v), in tenths
FloatOf(v) ==
    CASE v.t \in {"int", "numstr"} -> [exc |-> "ok", n |-> 10 * v.n]
      [] v.t \in {"float", "decstr"} -> [exc |-> "ok", n |-> v.n]
      [] v.t \in {"str", "emptystr"} -> [exc |-> "ValueError", n |-> 0]
      [] OTHER -> [exc |-> "TypeError", n |-> 0]

\* int(float(v)), for v that float() accepts
IntOfFloat(v) == FloatOf(v).n \div 10

\* '%d' % v raises TypeError unless v is a number
FormatsAsD(v) == v.t = "int"

(* ---------------------------------------------------------------------- *)
(* Error codes                                                             *)
(* ---------------------------------------------------------------------- *)
NOERROR == "NONE"
BADALLOC == "BADALLOC"
NOUSERTARBALL == "NOUSERTARBALL"
PAYLOADOUTOFMEMORY == "PAYLOADOUTOFMEMORY"
MISSINGINSTALLATION == "MISSINGINSTALLATION"
NFSSQLITE == "NFSSQLITE"

get_error_message(code) == <<code>>

\* errors.add_error_code(code): the code is appended to the process-wide
\* lists unless it is already there; the lists are returned
add_error_code(reg, code) ==
    IF \E i \in 1..Len(reg.codes) : reg.codes[i] = code
    THEN reg
    ELSE [codes |-> Append(reg.codes, code),
          diags |-> Append(reg.diags, get_error_message(code))]

(* ---------------------------------------------------------------------- *)
(* Text: a string is a sequence of tokens                                  *)
(*   "shmsg"   sh: <path>/setup.sh: No such file or directory              *)
(*   "url"     a URL starting with http:// or https://                     *)
(*   "nl"      a line break                                                *)
(*   "someurl" the literal http://someurl.se/path                          *)
(*   "sh"      sh:                                                         *)
(*   "setupsh" setup.sh                                                    *)
(*   "nosuch"  No such file or directory                                   *)
(*   "pad"     1000 characters of other text                               *)
(* ---------------------------------------------------------------------- *)
TailAlphabet == {"shmsg", "url", "nl"}
InstallAlphabet == {"sh", "setupsh", "nosuch", "pad"}

StartsWithSh(tok) == tok \in {"shmsg", "sh"}
HasSetupSh(tok) == tok \in {"shmsg", "setupsh"}
HasNoSuchFile(tok) == tok \in {"shmsg", "nosuch"}
IsUrl(tok) == tok \in {"url", "someurl"}

TokLen(tok) ==
    CASE tok = "shmsg" -> 52
      [] tok = "url" -> 24
      [] tok = "someurl" -> 22
      [] tok = "sh" -> 3
      [] tok = "setupsh" -> 8
      [] tok = "nosuch" -> 25
      [] tok = "pad" -> 1000
      [] OTHER -> 1

SeqsUpTo(S, n) == UNION {[1..k -> S] : k \in 0..n}

\* s[:n]; a token cut in the middle is left as the fragment "cut"
RECURSIVE Slice(_, _)
Slice(s, n) ==
    IF s = <<>> \/ n <= 0 THEN <<>>
    ELSE IF TokLen(Head(s)) <= n
         THEN <<Head(s)>> \o Slice(Tail(s), n - TokLen(Head(s)))
         ELSE <<"cut">>

(* ---------------------------------------------------------------------- *)
(* The working directory                                                   *)
(* ---------------------------------------------------------------------- *)
OOM_STDERR == "FATAL out of memory: taking the application down"
OOM_STDOUT == "std::bad_alloc"
SQLITE_STDOUT == "Error SQLiteStatement"

NoFile == [exists |-> FALSE, lines |-> {}, tail |-> <<>>]
TextFile(ls, tl) == [exists |-> TRUE, lines |-> ls, tail |-> tl]

\* one entry of executor[0].logfileReport.details.ERROR
NOMESSAGE == "no message key"
BA1 == "first bad_alloc message"
BA2 == "second bad_alloc message"
OTHERMSG == "other message"
HasBadAlloc(m) == m \in {BA1, BA2}

\* how far the path executor[0].logfileReport.details.ERROR goes in a report
NOEXECUTOR == "no executor key"
EMPTYEXECUTOR == "executor is an empty list"
NOLOGFILEREPORT == "no logfileReport key"
NODETAILS == "no details key"
NOERRORKEY == "no ERROR key"
FULLPATH == "ERROR list"
BrokenPaths == {NOEXECUTOR, EMPTYEXECUTOR, NOLOGFILEREPORT, NODETAILS, NOERRORKEY}

NoReport == [state |-> "absent", exitCode |-> Missing, exitMsg |-> Missing,
             executor |-> NOEXECUTOR, ERROR |-> <<>>,
             n_events |-> Missing, db_time |-> Missing, db_data |-> Missing]
BadReport == [NoReport EXCEPT !.state = "malformed"]
Report(ec, em, ex, el, ne, dt, dd) ==
    [state |-> "valid", exitCode |-> ec, exitMsg |-> em, executor |-> ex,
     ERROR |-> el, n_events |-> ne, db_time |-> dt, db_data |-> dd]

\* a line of a summary file
READ1 == [kind |-> "read", ok |-> TRUE, n |-> 1]
WRITTEN2 == [kind |-> "written", ok |-> TRUE, n |-> 2]
READBAD == [kind |-> "read", ok |-> FALSE, n |-> 0]
OTHERLINE == [kind |-> "other", ok |-> TRUE, n |-> 0]
READ0 == [kind |-> "read", ok |-> TRUE, n |-> 0]
READ3 == [kind |-> "read", ok |-> TRUE, n |-> 3]
WRITTENBAD == [kind |-> "written", ok |-> FALSE, n |-> 0]

SummaryContents == {<<>>, <<READ1, WRITTEN2>>, <<OTHERLINE, WRITTEN2>>, <<READBAD>>}
PassFiles == [name : {"AthSummary.txt"}, mtime : {1, 2}, lines : SummaryContents]
               \cup [name : {"AthenaSummary.txt"}, mtime : {1, 2}, lines : SummaryContents]

WorkDir(so, se, rp, xml, sm, hb, ec) ==
    [stdout |-> so, stderr |-> se, report |-> rp, xml_events |-> xml,
     summaries |-> sm, heartbeat |-> hb, entry_exitcode |-> ec]

Stdouts == {NoFile} \cup {TextFile(b, tl) : b \in {{}, {OOM_STDOUT}, {SQLITE_STDOUT}},
                                            tl \in SeqsUpTo(TailAlphabet, MaxTail)}
Stderrs == {NoFile, TextFile({}, <<>>), TextFile({OOM_STDERR}, <<>>)}
ExitCodes == {0, 1, 146}

(* ---------------------------------------------------------------------- *)
(* Helpers of pilot.util.filehandling, as the detectors use them           *)
(* ---------------------------------------------------------------------- *)
\* tail(filename): the last lines of the file, empty when there is no file
tail(file) == IF file.exists THEN file.tail ELSE <<>>

\* grep(patterns, filename): the lines that match one of the patterns
grep(patterns, file) == IF file.exists THEN file.lines \cap patterns ELSE {}

getsize(file) == IF file.lines = {} /\ file.tail = <<>> THEN 0 ELSE 1

(* ---------------------------------------------------------------------- *)
(* diagnose.py: the detectors                                              *)
(* ---------------------------------------------------------------------- *)
is_out_of_memory(w) ==
    \/ /\ w.stderr.exists
       /\ getsize(w.stderr) > 0
       /\ grep({OOM_STDERR}, w.stderr) # {}
    \/ /\ w.stdout.exists
       /\ getsize(w.stdout) > 0
       /\ grep({"St9bad_alloc", OOM_STDOUT}, w.stdout) # {}

\* is_installation_error looking at the whole tail
is_installation_error_whole(w) ==
    LET res_tmp == tail(w.stdout)
    IN /\ res_tmp # <<>>
       /\ StartsWithSh(res_tmp[1])
       /\ \E i \in 1..Len(res_tmp) : HasSetupSh(res_tmp[i])
       /\ \E i \in 1..Len(res_tmp) : HasNoSuchFile(res_tmp[i])

is_installation_error(w) ==
    LET res_tmp == Slice(tail(w.stdout), 1024)
    IN /\ res_tmp # <<>>
       /\ StartsWithSh(res_tmp[1])
       /\ \E i \in 1..Len(res_tmp) : HasSetupSh(res_tmp[i])
       /\ \E i \in 1..Len(res_tmp) : HasNoSuchFile(res_tmp[i])

is_nfssqlite_locking_problem(w) ==
    grep({"prepare 5 database is locked", SQLITE_STDOUT}, w.stdout) # {}

\* interpret_payload_exit_info with the installation check ahead of the memory check
payload_exit_info_codes_swapped(w) ==
    IF is_installation_error(w) THEN <<MISSINGINSTALLATION>>
    ELSE IF is_out_of_memory(w) THEN <<PAYLOADOUTOFMEMORY>>
    ELSE IF is_nfssqlite_locking_problem(w) THEN <<NFSSQLITE>>
    ELSE <<>>

\* interpret_payload_exit_info without its return statements
payload_exit_info_codes_noreturn(w) ==
    (IF is_out_of_memory(w) THEN <<PAYLOADOUTOFMEMORY>> ELSE <<>>)
    \o (IF is_installation_error(w) THEN <<MISSINGINSTALLATION>> ELSE <<>>)
    \o (IF is_nfssqlite_locking_problem(w) THEN <<NFSSQLITE>> ELSE <<>>)

\* the error codes interpret_payload_exit_info adds, in the order it adds them
payload_exit_info_codes(w) ==
    IF is_out_of_memory(w) THEN <<PAYLOADOUTOFMEMORY>>
    ELSE IF is_installation_error(w) THEN <<MISSINGINSTALLATION>>
    ELSE IF is_nfssqlite_locking_problem(w) THEN <<NFSSQLITE>>
    ELSE <<>>

\* index of the first token of s, from position i on, that satisfies IsUrl (0: none)
RECURSIVE FirstUrl(_, _)
FirstUrl(s, i) ==
    IF i > Len(s) THEN 0
    ELSE IF IsUrl(s[i]) THEN i ELSE FirstUrl(s, i + 1)

\* index of the first line break of s after position i (Len(s) + 1: none)
RECURSIVE LineEnd(_, _)
LineEnd(s, i) ==
    IF i > Len(s) THEN i
    ELSE IF s[i] = "nl" THEN i ELSE LineEnd(s, i + 1)

\* index of the last token of s, up to position i, that satisfies IsUrl (0: none)
RECURSIVE LastUrl(_, _)
LastUrl(s, i) ==
    IF i < 1 THEN 0
    ELSE IF IsUrl(s[i]) THEN i ELSE LastUrl(s, i - 1)

\* extract_tarball_url taking found[-1]
extract_tarball_url_last(_tail) ==
    LET i == LastUrl(_tail, Len(_tail))
    IN IF i = 0 THEN <<"(source unknown)">>
       ELSE SubSeq(_tail, i, LineEnd(_tail, i) - 1)

\* re.findall(r"(https?\:\/\/.+)", _tail)[0]: from the first URL to the end of its line
extract_tarball_url(_tail) ==
    LET i == FirstUrl(_tail, 1)
    IN IF i = 0 THEN <<"(source unknown)">>
       ELSE SubSeq(_tail, i, LineEnd(_tail, i) - 1)

nousertarball_diag(w) ==
    LET _tail == tail(w.stdout) \o <<"someurl">>
    IN <<"User tarball">> \o extract_tarball_url(_tail)
           \o <<"cannot be downloaded from PanDA server">>

\* the messages collected until an entry without 'message' aborts the loop
RECURSIVE collect_messages(_)
collect_messages(details) ==
    IF details = <<>> THEN <<>>
    ELSE IF Head(details) = NOMESSAGE THEN <<>>
    ELSE <<Head(details)>> \o collect_messages(Tail(details))

\* get_job_report_errors giving nothing when an entry has no 'message'
get_job_report_errors_all_or_nothing(rep) ==
    IF rep.executor = FULLPATH /\ \A i \in 1..Len(rep.ERROR) : rep.ERROR[i] # NOMESSAGE
    THEN rep.ERROR
    ELSE <<>>

get_job_report_errors(rep) ==
    IF rep.executor = NOEXECUTOR THEN <<>>
    ELSE IF rep.executor # FULLPATH THEN <<>>
    ELSE collect_messages(rep.ERROR)

\* positions of the messages that hold "bad_alloc"
bad_alloc_positions(job_report_errors) ==
    {i \in 1..Len(job_report_errors) : HasBadAlloc(job_report_errors[i])}

SetMin(S) == CHOOSE x \in S : \A y \in S : x <= y
SetMax(S) == CHOOSE x \in S : \A y \in S : x >= y

\* is_bad_alloc without the break: the last matching message is kept
is_bad_alloc_nobreak(job_report_errors) ==
    LET hits == bad_alloc_positions(job_report_errors)
    IN IF hits = {} THEN [bad_alloc |-> FALSE, diagnostics |-> <<>>]
       ELSE [bad_alloc |-> TRUE, diagnostics |-> <<job_report_errors[SetMax(hits)]>>]

\* the loop breaks at the first message that holds "bad_alloc"
is_bad_alloc(job_report_errors) ==
    LET hits == bad_alloc_positions(job_report_errors)
    IN IF hits = {} THEN [bad_alloc |-> FALSE, diagnostics |-> <<>>]
       ELSE [bad_alloc |-> TRUE, diagnostics |-> <<job_report_errors[SetMin(hits)]>>]

(* ---------------------------------------------------------------------- *)
(* diagnose.py: summary files                                              *)
(* ---------------------------------------------------------------------- *)
\* modification times count in units of 10 seconds, so that the initial value
\* 9999999999 of oldest_time fits the integers of the model checker
OLDEST_INIT == 999999999
RECENT_INIT == 0

\* the loop body with the second test in an elif
scan_summary_file_elif(acc, f) ==
    IF f.mtime > acc.recent_time
    THEN [acc EXCEPT !.recent_time = f.mtime, !.recent_summary_file = f.name]
    ELSE IF f.mtime < acc.oldest_time
         THEN [acc EXCEPT !.oldest_time = f.mtime, !.oldest_summary_file = f.name]
         ELSE acc

\* one iteration of the loop over file_list
scan_summary_file(acc, f) ==
    LET a1 == IF f.mtime > acc.recent_time
              THEN [acc EXCEPT !.recent_time = f.mtime, !.recent_summary_file = f.name]
              ELSE acc
    IN IF f.mtime < a1.oldest_time
       THEN [a1 EXCEPT !.oldest_time = f.mtime, !.oldest_summary_file = f.name]
       ELSE a1

RECURSIVE scan_summary_files(_, _)
scan_summary_files(acc, file_list) ==
    IF file_list = <<>> THEN acc
    ELSE scan_summary_files(scan_summary_file(acc, Head(file_list)), Tail(file_list))

find_most_recent_and_oldest_summary_files(file_list) ==
    IF Len(file_list) > 1
    THEN scan_summary_files([recent_summary_file |-> "", recent_time |-> RECENT_INIT,
                             oldest_summary_file |-> "", oldest_time |-> OLDEST_INIT],
                            file_list)
    ELSE [recent_summary_file |-> file_list[1].name, recent_time |-> file_list[1].mtime,
          oldest_summary_file |-> file_list[1].name, oldest_time |-> file_list[1].mtime]

\* the loop over the lines: re.match(...).group(1) on a line that holds the
\* marker but does not match raises AttributeError, which no handler catches
RECURSIVE scan_lines(_, _, _)
scan_lines(lines, n1, n2) ==
    IF lines = <<>> THEN [exc |-> "ok", n1 |-> n1, n2 |-> n2]
    ELSE LET l == Head(lines)
             m1 == IF l.kind = "read" THEN l.n ELSE n1
             m2 == IF l.kind = "written" THEN l.n ELSE n2
         IN IF l.kind # "other" /\ ~l.ok
            THEN [exc |-> "AttributeError", n1 |-> n1, n2 |-> n2]
            ELSE IF m1 > 0 /\ m2 > 0
                 THEN [exc |-> "ok", n1 |-> m1, n2 |-> m2]
                 ELSE scan_lines(Tail(lines), m1, m2)

\* open_file gives nothing for a name that is no file of the directory
get_number_of_events_from_summary_file(file_list, oldest_summary_file) ==
    IF \E i \in 1..Len(file_list) : file_list[i].name = oldest_summary_file
    THEN LET i == CHOOSE k \in 1..Len(file_list) : file_list[k].name = oldest_summary_file
         IN scan_lines(file_list[i].lines, 0, 0)
    ELSE [exc |-> "ok", n1 |-> 0, n2 |-> 0]

process_athena_summary(w) ==
    IF w.summaries = <<>> THEN [exc |-> "ok", n1 |-> 0, n2 |-> 0]
    ELSE get_number_of_events_from_summary_file(w.summaries,
             find_most_recent_and_oldest_summary_files(w.summaries).oldest_summary_file)

(* ---------------------------------------------------------------------- *)
(* jobmetrics.py                                                           *)
(* A metrics string is the sequence of its space-separated tokens; a token *)
(* is [key, val, len], len being its number of characters.                 *)
(* ---------------------------------------------------------------------- *)
METRICS_CAP == 500

RECURSIVE Digits(_)
Digits(n) == IF n < 10 THEN 1 ELSE 1 + Digits(n \div 10)

KeyLen(key) ==
    CASE key = "nEvents" -> 7
      [] key = "nEventsW" -> 8
      [] key = "dbTime" -> 6
      [] key = "dbData" -> 6
      [] key = "eventnumber" -> 11
      [] OTHER -> 1

\* get_job_metrics_entry(name, value): "name=value ", nothing for the empty string
get_job_metrics_entry(name, value) ==
    IF value.t = "emptystr" THEN <<>>
    ELSE <<[key |-> name, val |-> value.n, len |-> KeyLen(name) + 1 + Digits(value.n)]>>

\* get_db_info(job.metadata): the report's database figures, as strings
get_db_info(md) ==
    [dbtime |-> IF md.db_time.t \in {"int", "numstr"} /\ md.db_time.n # 0
                THEN NumStr(md.db_time.n) ELSE EmptyStr,
     dbdata |-> IF md.db_data.t \in {"int", "numstr"} /\ md.db_data.n # 0
                THEN NumStr(md.db_data.n) ELSE EmptyStr]

\* get_number_in_string(find_last_line(path)): None when the line does not match
get_number_in_string(hb) == IF hb.t = "int" THEN hb ELSE None

add_event_number(job_metrics, w) ==
    IF w.heartbeat.t # "missing" /\ Truthy(get_number_in_string(w.heartbeat))
    THEN job_metrics \o get_job_metrics_entry("eventnumber", get_number_in_string(w.heartbeat))
    ELSE job_metrics

\* line 124: the exception it raises, or "ok" with the quotient
hs06_per_core(hs06, total_cpu, corecount) ==
    IF FloatOf(hs06).exc # "ok" THEN [exc |-> FloatOf(hs06).exc, num |-> 0, den |-> 1]
    ELSE IF corecount.t # "int" THEN [exc |-> "TypeError", num |-> 0, den |-> 1]
    ELSE IF FloatOf(total_cpu).exc # "ok"
         THEN [exc |-> FloatOf(total_cpu).exc, num |-> 0, den |-> 1]
    ELSE IF IntOfFloat(total_cpu) = 0
         THEN [exc |-> "ZeroDivisionError", num |-> 0, den |-> 1]
    ELSE [exc |-> "ok", num |-> IntOfFloat(hs06) * corecount.n, den |-> IntOfFloat(total_cpu)]

\* add_features(job_metrics, corecount, add=['hs06']) for the machine features
\* mf: the exception that leaves it, whether hs06 was rescaled, the hs06 value
\* and whether the entry hs06=<value> was added
add_features(mf, corecount) ==
    LET hs06 == mf.hs06
        total_cpu == mf.total_cpu
        q == hs06_per_core(hs06, total_cpu, corecount)
    IN IF Truthy(hs06) /\ Truthy(total_cpu) /\ (total_cpu # NumStr(0) \/ total_cpu # IntV(0))
       THEN IF q.exc = "ok"
            THEN [exc |-> "ok", rescaled |-> TRUE, hs06 |-> [num |-> q.num, den |-> q.den],
                  added |-> TRUE]
            ELSE IF q.exc \in {"TypeError", "ValueError"}
            THEN [exc |-> "ok", rescaled |-> FALSE, hs06 |-> hs06, added |-> Truthy(hs06)]
            ELSE [exc |-> q.exc, rescaled |-> FALSE, hs06 |-> hs06, added |-> FALSE]
       ELSE [exc |-> "ok", rescaled |-> FALSE, hs06 |-> hs06, added |-> Truthy(hs06)]

\* the fields get_job_metrics_string leaves on the job
metrics_job(j) ==
    IF j.metadata.state = "valid"
    THEN [j EXCEPT !.dbtime = get_db_info(j.metadata).dbtime,
                   !.dbdata = get_db_info(j.metadata).dbdata]
    ELSE j

\* the entries built from the job and from the files of the working directory;
\* core count, workdir size, machine features, memory monitor and dask entries
\* come from outside of both and are left out
get_job_metrics_string(j, w) ==
    LET j2 == metrics_job(j)
        m1 == IF j2.nevents > 0 THEN get_job_metrics_entry("nEvents", IntV(j2.nevents)) ELSE <<>>
        m2 == IF j2.neventsw > 0 THEN get_job_metrics_entry("nEventsW", IntV(j2.neventsw)) ELSE <<>>
        m3 == IF Truthy(j2.dbtime) THEN get_job_metrics_entry("dbTime", j2.dbtime) ELSE <<>>
        m4 == IF Truthy(j2.dbdata) THEN get_job_metrics_entry("dbData", j2.dbdata) ELSE <<>>
    IN add_event_number(m1 \o m2 \o m3 \o m4, w)

RECURSIVE SumLen(_)
SumLen(toks) == IF toks = <<>> THEN 0 ELSE Head(toks).len + SumLen(Tail(toks))

\* len() of the string whose space-separated tokens are toks
StrLen(toks) == IF toks = <<>> THEN 0 ELSE SumLen(toks) + Len(toks) - 1

\* job_metrics[:n].split(" "): the last fragment may be a cut token, or be
\* empty when the cut falls right behind a space
RECURSIVE cut_and_split(_, _)
cut_and_split(toks, n) ==
    IF toks = <<>> THEN <<>>
    ELSE IF n <= Head(toks).len THEN <<[Head(toks) EXCEPT !.len = n]>>
    ELSE IF Len(toks) = 1 THEN toks
    ELSE <<Head(toks)>> \o cut_and_split(Tail(toks), n - Head(toks).len - 1)

\* the cut string as it is, with its last fragment
keep_last(fragments) == fragments

\* " ".join(fragments[:-1])
drop_last(fragments) == SubSeq(fragments, 1, Len(fragments) - 1)

truncate_metrics(toks) ==
    IF StrLen(toks) > METRICS_CAP
    THEN drop_last(cut_and_split(toks, METRICS_CAP))
    ELSE toks

get_job_metrics(j, w) == truncate_metrics(get_job_metrics_string(j, w))

(* ---------------------------------------------------------------------- *)
(* diagnose.py: the steps of interpret, as functions of the job            *)
(* ---------------------------------------------------------------------- *)
\* parse_jobreport_data(job.metadata): the flat work attributes of the report
parse_jobreport_data(md) ==
    [n_events |-> md.n_events, db_time |-> md.db_time, db_data |-> md.db_data]

\* lines 456-471: the compulsory fields
compulsory_fields(j, rep) ==
    [j EXCEPT !.metadata = rep,
              !.exitcode = IF rep.exitCode.t = "missing" THEN IntV(0) ELSE rep.exitCode,
              !.exitmsg = IF rep.exitMsg.t = "missing" THEN EmptyStr ELSE rep.exitMsg]

\* lines 473-482 with the diagnostic appended to the one the job holds
report_bad_alloc_append(j, reg) ==
    LET res == is_bad_alloc(get_job_report_errors(j.metadata))
    IN IF j.exitcode # IntV(0) /\ res.bad_alloc
       THEN LET reg2 == add_error_code(reg, BADALLOC)
            IN [job |-> [j EXCEPT !.piloterrorcodes = reg2.codes,
                                  !.piloterrordiags = reg2.diags,
                                  !.piloterrorcode = BADALLOC,
                                  !.piloterrordiag = @ \o res.diagnostics],
                errors |-> reg2, added |-> <<BADALLOC>>]
       ELSE [job |-> j, errors |-> reg, added |-> <<>>]

\* lines 473-482: [job, errors, added]
report_bad_alloc(j, reg) ==
    LET res == is_bad_alloc(get_job_report_errors(j.metadata))
    IN IF j.exitcode # IntV(0) /\ res.bad_alloc
       THEN LET reg2 == add_error_code(reg, BADALLOC)
            IN [job |-> [j EXCEPT !.piloterrorcodes = reg2.codes,
                                  !.piloterrordiags = reg2.diags,
                                  !.piloterrorcode = BADALLOC,
                                  !.piloterrordiag = res.diagnostics],
                errors |-> reg2, added |-> <<BADALLOC>>]
       ELSE [job |-> j, errors |-> reg, added |-> <<>>]

set_error_nousertarball(j, reg, w) ==
    LET reg2 == add_error_code(reg, NOUSERTARBALL)
    IN [job |-> [j EXCEPT !.piloterrorcodes = reg2.codes,
                          !.piloterrordiags = reg2.diags,
                          !.piloterrorcode = NOUSERTARBALL,
                          !.piloterrordiag = nousertarball_diag(w)],
        errors |-> reg2, added |-> <<NOUSERTARBALL>>]

\* interpret without the else branch of lines 45-46
interpret_exit_code_zero(j) == IntV(0)

\* exit_code of interpret after lines 43-46
interpret_exit_code(j) == IF j.exitcode = IntV(0) THEN IntV(0) ELSE j.exitcode

find_number_of_events_in_jobreport(j) ==
    LET n_events == parse_jobreport_data(j.metadata).n_events
    IN IF n_events.t # "missing" /\ Truthy(n_events) /\ IntOf(n_events).exc = "ok"
       THEN [j EXCEPT !.nevents = IntOf(n_events).n]
       ELSE j

find_number_of_events_in_xml(j, w) ==
    IF w.xml_events > 0 THEN [j EXCEPT !.nevents = w.xml_events] ELSE j

\* lines 197-203, given what process_athena_summary returned
set_summary_events(j, res) ==
    [j EXCEPT !.nevents = IF res.n1 > 0 THEN res.n1 ELSE @,
              !.neventsw = IF res.n2 > 0 THEN res.n2 ELSE @]

\* lines 368-373: [job, exc]
find_db_time(j) ==
    LET v == parse_jobreport_data(j.metadata).db_time
        j2 == IF IntOf(v).exc = "ok" THEN [j EXCEPT !.dbtime = IntV(IntOf(v).n)] ELSE j
    IN IF v.t = "missing" THEN [job |-> j, exc |-> "ok"]
       ELSE IF IntOf(v).exc = "TypeError" THEN [job |-> j, exc |-> "TypeError"]
       ELSE IF ~FormatsAsD(j2.dbtime) THEN [job |-> j2, exc |-> "TypeError"]
       ELSE [job |-> j2, exc |-> "ok"]

\* lines 374-379: [job, exc]
find_db_data(j) ==
    LET v == parse_jobreport_data(j.metadata).db_data
    IN IF v.t = "missing" THEN [job |-> j, exc |-> "ok"]
       ELSE IF ~FormatsAsD(v) THEN [job |-> [j EXCEPT !.dbdata = v], exc |-> "TypeError"]
       ELSE [job |-> [j EXCEPT !.dbdata = v], exc |-> "ok"]

find_db_info(j) ==
    IF find_db_time(j).exc # "ok" THEN find_db_time(j)
    ELSE find_db_data(find_db_time(j).job)

RECURSIVE add_error_codes(_, _)
add_error_codes(reg, codes) ==
    IF codes = <<>> THEN reg
    ELSE add_error_codes(add_error_code(reg, Head(codes)), Tail(codes))

(* ---------------------------------------------------------------------- *)
(* State                                                                   *)
(* ---------------------------------------------------------------------- *)
Job0(ec) ==
    [exitcode |-> IntV(ec), exitmsg |-> EmptyStr, nevents |-> 0, neventsw |-> 0,
     dbtime |-> None, dbdata |-> None,
     piloterrorcode |-> NOERROR, piloterrordiag |-> <<>>,
     piloterrorcodes |-> <<>>, piloterrordiags |-> <<>>, metadata |-> NoReport]

ErrLists == SeqsUpTo({BA1, BA2, OTHERMSG, NOMESSAGE}, MaxErrors)

\* reports that differ in their error details
ErrorReports ==
    {Report(ec, BadStr, FULLPATH, el, Missing, Missing, Missing) :
        ec \in {Missing, IntV(0), IntV(1), IntV(146)}, el \in ErrLists}
    \cup {Report(ec, BadStr, ex, <<>>, Missing, Missing, Missing) :
        ec \in {Missing, IntV(0), IntV(1), IntV(146)}, ex \in BrokenPaths}
    \cup {Report(ec, em, FULLPATH, <<BA1>>, Missing, Missing, Missing) :
        ec \in {BadStr, NumStr(1), None}, em \in {Missing, BadStr, None}}

\* a few reports to go with every stdout and stderr
FewReports ==
    {Report(ec, BadStr, FULLPATH, el, Missing, Missing, Missing) :
        ec \in {Missing, IntV(0), IntV(1), IntV(146)}, el \in {<<>>, <<BA1>>}}
    \cup {BadReport}

\* reports that differ in their work attributes
AttrReports ==
    {Report(ec, Missing, NOEXECUTOR, <<>>, ne, dt, dd) :
        ec \in {IntV(0), IntV(1)},
        ne \in {Missing, None, BadStr, NumStr(1)} \cup {IntV(n) : n \in -1..MaxEvents},
        dt \in {Missing, None, BadStr, NumStr(3), IntV(3)},
        dd \in {Missing, BadStr, IntV(4)}}

OneSummary == <<[name |-> "AthSummary.txt", mtime |-> 1, lines |-> <<READ1, WRITTEN2>>]>>

SummaryLists ==
    {<<>>} \cup {<<f>> : f \in PassFiles}
    \cup {<<f, g>> : f \in {x \in PassFiles : x.name = "AthSummary.txt"},
                     g \in {x \in PassFiles : x.name = "AthenaSummary.txt"}}

\* the working directories are drawn from five families, each varying some
\* of the artifacts and holding the others to a few values
WorkDirsStdout ==
    {WorkDir(so, se, rp, 0, <<>>, Missing, 0) :
        so \in Stdouts, se \in Stderrs, rp \in FewReports}
    \cup {WorkDir(so, se, NoReport, 0, <<>>, Missing, ec) :
        so \in Stdouts, se \in Stderrs, ec \in ExitCodes}

WorkDirsReport ==
    {WorkDir(so, se, rp, 0, <<>>, Missing, 0) :
        so \in {NoFile, TextFile({}, <<"url">>)},
        se \in {NoFile, TextFile({OOM_STDERR}, <<>>)}, rp \in ErrorReports}

WorkDirsAttrs ==
    {WorkDir(NoFile, se, rp, xml, sm, hb, 0) :
        se \in {NoFile, TextFile({OOM_STDERR}, <<>>)}, rp \in AttrReports,
        xml \in 0..MaxEvents, sm \in {<<>>, OneSummary}, hb \in {Missing, IntV(7)}}

WorkDirsSummary ==
    {WorkDir(NoFile, se, rp, xml, sm, hb, ec) :
        se \in {NoFile, TextFile({OOM_STDERR}, <<>>)},
        rp \in {NoReport},
        xml \in 0..MaxEvents, sm \in SummaryLists,
        hb \in {Missing, BadStr, IntV(0), IntV(7)}, ec \in {0, 146}}
    \cup {WorkDir(NoFile, se, rp, xml, sm, hb, 0) :
        se \in {NoFile, TextFile({OOM_STDERR}, <<>>)},
        rp \in {Report(IntV(0), Missing, NOEXECUTOR, <<>>, ne, Missing, Missing) :
                   ne \in {Missing, IntV(1)}},
        xml \in 0..MaxEvents, sm \in SummaryLists,
        hb \in {Missing, BadStr, IntV(0), IntV(7)}}

\* stdout tails around the 1024th character
WorkDirsTail ==
    {WorkDir(TextFile(b, tl), NoFile, NoReport, 0, <<>>, Missing, 0) :
        b \in {{}, {OOM_STDOUT}}, tl \in SeqsUpTo(InstallAlphabet, MaxTail + 2)}

WorkDirs ==
    WorkDirsStdout \cup WorkDirsReport \cup WorkDirsAttrs \cup WorkDirsSummary
        \cup WorkDirsTail

\* monitor.control is not running
NoControl == [at |-> "none"]

NoSnap ==
    [taken |-> FALSE, job |-> Job0(0), metrics |-> <<>>, exit_code |-> IntV(0),
     raised |-> "no"]

Init ==
    /\ wd \in WorkDirs
    /\ job = Job0(wd.entry_exitcode)
    /\ errors = [codes |-> <<>>, diags |-> <<>>]
    /\ pc = "process_job_report"
    /\ exit_code = IntV(0)
    /\ npass = 1
    /\ raised = "no"
    /\ recorded = <<>>
    /\ assigned = <<>>
    /\ consulted = <<>>
    /\ metrics = <<>>
    /\ snap = NoSnap
    /\ fin = <<>>
    /\ fout = <<>>
    /\ mon = NoControl

(* ---------------------------------------------------------------------- *)
(* interpret, one action per step                                          *)
(* recorded: the codes handed to add_error_code in this pass               *)
(* assigned: the values assigned to job.piloterrorcode in this pass        *)
(* consulted: the event-count sources tried in this pass, with their yield *)
(* ---------------------------------------------------------------------- *)
Raise(exc) ==
    /\ pc' = "raised"
    /\ raised' = exc

\* process_job_report(job)
ProcessJobReport ==
    /\ pc = "process_job_report"
    /\ CASE wd.report.state = "absent" ->
              /\ pc' = "special_errors"
              /\ UNCHANGED <<job, errors, raised, recorded, assigned>>
         [] wd.report.state = "malformed" ->
              /\ Raise("ValueError")
              /\ UNCHANGED <<job, errors, recorded, assigned>>
         [] OTHER ->
              LET j1 == compulsory_fields(job, wd.report)
                  res == report_bad_alloc(j1, errors)
              IN IF ~FormatsAsD(j1.exitcode)
                 THEN /\ Raise("TypeError")
                      /\ job' = j1
                      /\ UNCHANGED <<errors, recorded, assigned>>
                 ELSE /\ pc' = "special_errors"
                      /\ job' = res.job
                      /\ errors' = res.errors
                      /\ recorded' = recorded \o res.added
                      /\ assigned' = assigned \o res.added
                      /\ UNCHANGED raised
    /\ UNCHANGED <<wd, exit_code, npass, consulted, metrics, snap, fin, fout, mon>>

\* interpret, lines 43-51
SpecialErrors ==
    /\ pc = "special_errors"
    /\ exit_code' = interpret_exit_code(job)
    /\ IF exit_code' = IntV(146)
       THEN LET res == set_error_nousertarball(job, errors, wd)
            IN /\ job' = res.job
               /\ errors' = res.errors
               /\ recorded' = recorded \o res.added
               /\ assigned' = assigned \o res.added
       ELSE UNCHANGED <<job, errors, recorded, assigned>>
    /\ pc' = "events_jobreport"
    /\ UNCHANGED <<wd, npass, raised, consulted, metrics, snap, fin, fout, mon>>

\* find_number_of_events without its return statements
after_source_noreturn(j, next) == next

\* where find_number_of_events goes after a source: on, or out of the function
after_source(j, next) == IF j.nevents > 0 THEN "db_info" ELSE next

\* find_number_of_events, source #1
EventsJobReport ==
    /\ pc = "events_jobreport"
    /\ job' = find_number_of_events_in_jobreport(job)
    /\ consulted' = Append(consulted, [source |-> "jobReport", nevents |-> job'.nevents])
    /\ pc' = after_source(job', "events_xml")
    /\ UNCHANGED <<wd, errors, exit_code, npass, raised, recorded, assigned, metrics,
                   snap, fin, fout, mon>>

\* find_number_of_events, source #2
EventsXml ==
    /\ pc = "events_xml"
    /\ job' = find_number_of_events_in_xml(job, wd)
    /\ consulted' = Append(consulted, [source |-> "xml", nevents |-> job'.nevents])
    /\ pc' = after_source(job', "events_summary")
    /\ UNCHANGED <<wd, errors, exit_code, npass, raised, recorded, assigned, metrics,
                   snap, fin, fout, mon>>

\* find_number_of_events, source #3
EventsSummary ==
    /\ pc = "events_summary"
    /\ LET res == process_athena_summary(wd)
       IN IF res.exc # "ok"
          THEN /\ Raise(res.exc)
               /\ UNCHANGED job
          ELSE /\ job' = set_summary_events(job, res)
               /\ pc' = "db_info"
               /\ UNCHANGED raised
    /\ consulted' = Append(consulted, [source |-> "summary", nevents |-> job'.nevents])
    /\ UNCHANGED <<wd, errors, exit_code, npass, recorded, assigned, metrics, snap,
                   fin, fout, mon>>

\* find_db_info(job)
FindDbInfo ==
    /\ pc = "db_info"
    /\ LET res == find_db_info(job)
       IN /\ job' = res.job
          /\ IF res.exc # "ok"
             THEN Raise(res.exc)
             ELSE /\ pc' = "exit_info"
                  /\ UNCHANGED raised
    /\ UNCHANGED <<wd, errors, exit_code, npass, recorded, assigned, consulted, metrics,
                   snap, fin, fout, mon>>

\* interpret_payload_exit_info(job), and the return of interpret
InterpretPayloadExitInfo ==
    /\ pc = "exit_info"
    /\ LET codes == payload_exit_info_codes(wd)
           reg2 == add_error_codes(errors, codes)
       IN /\ errors' = reg2
          /\ recorded' = recorded \o codes
          /\ job' = IF codes = <<>> THEN job
                    ELSE [job EXCEPT !.piloterrorcodes = reg2.codes,
                                     !.piloterrordiags = reg2.diags]
    /\ IF FormatsAsD(exit_code)
       THEN /\ pc' = "done"
            /\ UNCHANGED raised
       ELSE Raise("TypeError")
    /\ UNCHANGED <<wd, exit_code, npass, assigned, consulted, metrics, snap, fin, fout, mon>>

\* get_job_metrics(job), called when interpret has returned or raised
GetJobMetrics ==
    /\ pc \in {"done", "raised"}
    /\ metrics' = get_job_metrics(job, wd)
    /\ job' = metrics_job(job)
    /\ pc' = "reported"
    /\ UNCHANGED <<wd, errors, exit_code, npass, raised, recorded, assigned, consulted,
                   snap, fin, fout, mon>>

\* interpret is called again for the same job and working directory
BeginPass ==
    /\ pc = "reported"
    /\ npass < MaxPasses
    /\ npass' = npass + 1
    /\ snap' = [taken |-> TRUE, job |-> job, metrics |-> metrics,
                exit_code |-> exit_code, raised |-> raised]
    /\ pc' = "process_job_report"
    /\ exit_code' = IntV(0)
    /\ raised' = "no"
    /\ recorded' = <<>>
    /\ assigned' = <<>>
    /\ consulted' = <<>>
    /\ UNCHANGED <<wd, job, errors, metrics, fin, fout, mon>>

Next ==
    \/ ProcessJobReport
    \/ SpecialErrors
    \/ EventsJobReport
    \/ EventsXml
    \/ EventsSummary
    \/ FindDbInfo
    \/ InterpretPayloadExitInfo
    \/ GetJobMetrics
    \/ BeginPass

Spec == Init /\ [][Next]_vars

\* the pass is over: interpret has returned or raised
PassOver == pc \in {"done", "raised", "reported"}

(* ---------------------------------------------------------------------- *)
(* Specifications of the pure functions: the input is drawn in fin, the    *)
(* function is applied once, its result is left in fout                    *)
(* ---------------------------------------------------------------------- *)
Pending == [done |-> FALSE]
Result(r) == [done |-> TRUE, res |-> r]

PureInit ==
    /\ wd = WorkDir(NoFile, NoFile, NoReport, 0, <<>>, Missing, 0)
    /\ job = Job0(0)
    /\ errors = [codes |-> <<>>, diags |-> <<>>]
    /\ pc = "pure"
    /\ exit_code = IntV(0)
    /\ npass = 1
    /\ raised = "no"
    /\ recorded = <<>>
    /\ assigned = <<>>
    /\ consulted = <<>>
    /\ metrics = <<>>
    /\ snap = NoSnap
    /\ fout = Pending

PureUnchanged ==
    UNCHANGED <<wd, job, errors, pc, exit_code, npass, raised, recorded, assigned,
                consulted, metrics, snap, fin, mon>>

\* file lists for find_most_recent_and_oldest_summary_files
FileNames == <<"AthSummary_1", "AthSummary_2", "AthSummary_3", "AthSummary_4",
               "AthSummary_5", "AthSummary_6">>
FileLists ==
    UNION {{[i \in 1..k |-> [name |-> FileNames[i], mtime |-> t[i], lines |-> <<>>]] :
               t \in [1..k -> 0..MaxTime]} : k \in 1..MaxFiles}

InitSummaryFiles ==
    /\ PureInit
    /\ fin \in FileLists
    /\ mon = NoControl

FindSummaryFiles ==
    /\ pc = "pure"
    /\ ~fout.done
    /\ fout' = Result(find_most_recent_and_oldest_summary_files(fin))
    /\ PureUnchanged

SpecSummaryFiles == InitSummaryFiles /\ [][FindSummaryFiles]_vars

\* metrics strings for get_job_metrics: stripped, so the first and the last
\* token are not empty; an empty token in between is a double space
TokenLens == {0, 1, 248, 249, 250, 251, 499, 500, 501}
MetricsStrings ==
    {s \in UNION {[1..k -> TokenLens] : k \in 1..MaxTokens} : s[1] > 0 /\ s[Len(s)] > 0}
AsTokens(s) == [i \in 1..Len(s) |-> [key |-> "key", val |-> i, len |-> s[i]]]

InitTruncate ==
    /\ PureInit
    /\ fin \in {AsTokens(s) : s \in MetricsStrings}
    /\ mon = NoControl

TruncateMetrics ==
    /\ pc = "pure"
    /\ ~fout.done
    /\ fout' = Result(truncate_metrics(fin))
    /\ PureUnchanged

SpecTruncate == InitTruncate /\ [][TruncateMetrics]_vars

\* machine features and core counts for add_features; a feature that is not
\* there reads as the default 0 of machinefeatures.get
Hs06Values == {IntV(0), IntV(10), NumStr(10), DecStr(105), BadStr}
TotalCpuValues ==
    {IntV(0), IntV(4), NumStr(0), NumStr(4), DecStr(0), DecStr(5), DecStr(25), FloatV(5),
     BadStr, EmptyStr, None}
FeaturesIn ==
    [mf : [hs06 : Hs06Values, total_cpu : TotalCpuValues],
     corecount : {None} \cup {IntV(c) : c \in 1..MaxCores}]

InitFeatures ==
    /\ PureInit
    /\ fin \in FeaturesIn
    /\ mon = NoControl

AddFeatures ==
    /\ pc = "pure"
    /\ ~fout.done
    /\ fout' = Result(add_features(fin.mf, fin.corecount))
    /\ PureUnchanged

SpecFeatures == InitFeatures /\ [][AddFeatures]_vars

\* contents of a summary file for get_number_of_events_from_summary_file
SummaryLines == {READ0, READ1, READ3, WRITTEN2, READBAD, WRITTENBAD, OTHERLINE}
SummaryFilesIn ==
    {[name |-> "AthSummary.txt", mtime |-> 1, lines |-> ls] :
        ls \in SeqsUpTo(SummaryLines, MaxLines)}

InitSummaryEvents ==
    /\ PureInit
    /\ fin \in SummaryFilesIn
    /\ mon = NoControl

GetNumberOfEvents ==
    /\ pc = "pure"
    /\ ~fout.done
    /\ fout' = Result(get_number_of_events_from_summary_file(<<fin>>, fin.name))
    /\ PureUnchanged

SpecSummaryEvents == InitSummaryEvents /\ [][GetNumberOfEvents]_vars

\* report dictionaries for get_job_report_errors
ReportDicts ==
    {Report(Missing, Missing, ex, <<>>, Missing, Missing, Missing) : ex \in BrokenPaths}
    \cup {Report(Missing, Missing, FULLPATH, el, Missing, Missing, Missing) :
              el \in SeqsUpTo({BA1, BA2, OTHERMSG, NOMESSAGE}, MaxErrors + 1)}

InitReportErrors ==
    /\ PureInit
    /\ fin \in ReportDicts
    /\ mon = NoControl

GetJobReportErrors ==
    /\ pc = "pure"
    /\ ~fout.done
    /\ fout' = Result(get_job_report_errors(fin))
    /\ PureUnchanged

SpecReportErrors == InitReportErrors /\ [][GetJobReportErrors]_vars

(* ---------------------------------------------------------------------- *)
(* monitor.py: control, one action per step of its loop                    *)
(*   mon.at        the step control is at                                  *)
(*   mon.runtime, mon.n   the two counters of control                      *)
(*   mon.graceful_stop    args.graceful_stop is set                        *)
(*   mon.by_control       control has set it (line 70)                     *)
(*   mon.external         another thread has set it                        *)
(*   mon.dead_thread      a thread check has found a thread not alive      *)
(* ---------------------------------------------------------------------- *)
\* config.Pilot.thread_check, a positive number of seconds
ThreadCheckTimes == {1, 2}

Control0(lifetime, threadchecktime) ==
    [at |-> "while", runtime |-> 0, n |-> 0, graceful_stop |-> FALSE,
     lifetime |-> lifetime, threadchecktime |-> threadchecktime,
     by_control |-> FALSE, external |-> FALSE, dead_thread |-> FALSE]

InitControl ==
    /\ PureInit
    /\ fin = <<>>
    /\ mon \in {Control0(l, t) : l \in 0..MaxLifetime, t \in ThreadCheckTimes}

ControlUnchanged ==
    UNCHANGED <<wd, job, errors, pc, exit_code, npass, raised, recorded, assigned,
                consulted, metrics, snap, fin, fout>>

\* line 65 with <= for <
within_lifetime_le(runtime, lifetime) == runtime <= lifetime

\* line 65
within_lifetime(runtime, lifetime) == runtime < lifetime

\* line 46: while not args.graceful_stop.is_set()
LoopTest ==
    /\ mon.at = "while"
    /\ mon' = [mon EXCEPT !.at = IF mon.graceful_stop THEN "returned" ELSE "wait"]
    /\ ControlUnchanged

\* lines 49-50: the wait ends with the event set, or times out
WaitForStop ==
    /\ mon.at = "wait"
    /\ mon' = [mon EXCEPT !.at = IF mon.graceful_stop THEN "returned" ELSE "checks"]
    /\ ControlUnchanged

\* lines 53-62: run_checks does nothing; the thread check, when it is due,
\* logs the threads that are not alive
RunChecks ==
    /\ mon.at = "checks"
    /\ \E elapsed \in 0..MaxElapsed, dead \in BOOLEAN :
          mon' = [mon EXCEPT !.at = "lifetime",
                             !.dead_thread = @ \/ (elapsed % mon.threadchecktime = 0 /\ dead)]
    /\ ControlUnchanged

\* lines 65-72
CheckLifetime ==
    /\ mon.at = "lifetime"
    /\ mon' = IF within_lifetime(mon.runtime, mon.lifetime)
              THEN [mon EXCEPT !.at = "while", !.runtime = @ + 1, !.n = @ + 1]
              ELSE [mon EXCEPT !.at = "while", !.graceful_stop = TRUE,
                               !.by_control = TRUE, !.n = @ + 1]
    /\ ControlUnchanged

\* another thread sets args.graceful_stop
ExternalStop ==
    /\ mon.at \in {"while", "wait", "checks", "lifetime"}
    /\ ~mon.graceful_stop
    /\ mon' = [mon EXCEPT !.graceful_stop = TRUE, !.external = TRUE]
    /\ ControlUnchanged

ControlStep == LoopTest \/ WaitForStop \/ RunChecks \/ CheckLifetime

NextControl == ControlStep \/ ExternalStop

SpecControl == InitControl /\ [][NextControl]_vars

\* the thread of control is scheduled, its wait times out and its sleep ends
SpecControlFair == SpecControl /\ WF_vars(ControlStep)

(* ---------------------------------------------------------------------- *)
(* Properties                                                              *)
(* ---------------------------------------------------------------------- *)
InSeq(x, q) == \E i \in 1..Len(q) : q[i] = x

StderrHasOOM == wd.stderr.exists /\ OOM_STDERR \in wd.stderr.lines
TailHasUrl == InSeq("url", tail(wd.stdout))
ReportExitNonZero ==
    wd.report.state = "valid" /\ wd.report.exitCode.t = "int" /\ wd.report.exitCode.n # 0
ReportHasBadAlloc ==
    wd.report.state = "valid" /\ wd.report.executor = FULLPATH
        /\ bad_alloc_positions(wd.report.ERROR) # {}
FirstBadAlloc == wd.report.ERROR[SetMin(bad_alloc_positions(wd.report.ERROR))]
\* every entry of ERROR ahead of the first bad_alloc message has a message
MessagesUpToBadAlloc ==
    \A k \in 1..SetMin(bad_alloc_positions(wd.report.ERROR)) : wd.report.ERROR[k] # NOMESSAGE

\* the detectors, each taken alone
BadAllocPositive ==
    ReportExitNonZero /\ is_bad_alloc(get_job_report_errors(wd.report)).bad_alloc
TarballPositive == exit_code = IntV(146)
FirstOfThree ==
    IF is_out_of_memory(wd) THEN <<PAYLOADOUTOFMEMORY>>
    ELSE IF is_installation_error(wd) THEN <<MISSINGINSTALLATION>>
    ELSE IF is_nfssqlite_locking_problem(wd) THEN <<NFSSQLITE>>
    ELSE <<>>
ClaimedFirst ==
    IF FirstOfThree # <<>> THEN FirstOfThree
    ELSE IF BadAllocPositive THEN <<BADALLOC>>
    ELSE IF TarballPositive THEN <<NOUSERTARBALL>>
    ELSE <<>>

\* C1 as stated: the detectors are applied in the order OUT_OF_MEMORY,
\* MISSING_INSTALLATION, NFS_SQLITE_LOCK, BAD_ALLOC, NO_USER_TARBALL and a pass
\* that completes has recorded only the first positive one in that order.
C1_Original == pc = "done" => recorded = ClaimedFirst

\* C1 amended: a pass that completes has recorded, in this order, BADALLOC when
\* the report detector is positive, NOUSERTARBALL when the exit code is 146, and
\* the first positive one of OUT_OF_MEMORY, MISSING_INSTALLATION,
\* NFS_SQLITE_LOCK; all of them are among the job's error codes.
C1_Amended ==
    pc = "done" =>
        /\ recorded = (IF BadAllocPositive THEN <<BADALLOC>> ELSE <<>>)
                      \o (IF TarballPositive THEN <<NOUSERTARBALL>> ELSE <<>>)
                      \o FirstOfThree
        /\ \A i \in 1..Len(recorded) : InSeq(recorded[i], job.piloterrorcodes)

C1_Witness ==
    /\ pc = "done"
    /\ is_out_of_memory(wd)
    /\ is_installation_error(wd)
    /\ recorded = <<BADALLOC, NOUSERTARBALL, PAYLOADOUTOFMEMORY>>

\* C2 as stated: within one pass at most one error code is added and
\* job.piloterrorcode is assigned at most once.
C2_Original == Len(recorded) <= 1 /\ Len(assigned) <= 1

\* C2 amended: within one pass at most three error codes are added, no code
\* twice; job.piloterrorcode is assigned at most twice, BADALLOC by
\* process_job_report and then NOUSERTARBALL by set_error_nousertarball, and the
\* job holds the value assigned last.
C2_Amended ==
    /\ Len(recorded) <= 3
    /\ \A i, k \in 1..Len(recorded) : recorded[i] = recorded[k] => i = k
    /\ assigned \in {<<>>, <<BADALLOC>>, <<NOUSERTARBALL>>, <<BADALLOC, NOUSERTARBALL>>}
    /\ assigned # <<>> => job.piloterrorcode = assigned[Len(assigned)]
    /\ assigned = <<>> /\ npass = 1 => job.piloterrorcode = NOERROR

C2_Witness ==
    /\ pc = "done"
    /\ assigned = <<BADALLOC, NOUSERTARBALL>>
    /\ Len(recorded) = 3

\* C3 as stated: a report whose ERROR list holds a bad_alloc message and whose
\* exitCode is not zero (146 included) leaves the classification BADALLOC with
\* the first such message as the diagnostic.
C3_Original ==
    PassOver /\ ReportHasBadAlloc /\ ReportExitNonZero =>
        /\ job.piloterrorcode = BADALLOC
        /\ job.piloterrordiag = <<FirstBadAlloc>>

\* C3 amended: when every ERROR entry ahead of the first bad_alloc message has
\* a message, an exitCode other than 0 and 146 leaves the classification
\* BADALLOC with that message as the diagnostic; with exitCode 146 BADALLOC is
\* added to the error codes and the classification ends as NOUSERTARBALL.
C3_Amended ==
    PassOver /\ ReportHasBadAlloc /\ ReportExitNonZero /\ MessagesUpToBadAlloc =>
        /\ InSeq(BADALLOC, job.piloterrorcodes)
        /\ wd.report.exitCode.n # 146 =>
              /\ job.piloterrorcode = BADALLOC
              /\ job.piloterrordiag = <<FirstBadAlloc>>
        /\ wd.report.exitCode.n = 146 => job.piloterrorcode = NOUSERTARBALL

C3_Witness ==
    /\ pc = "done"
    /\ wd.report.state = "valid"
    /\ wd.report.ERROR = <<BA2, BA1>>
    /\ wd.report.exitCode = IntV(1)
    /\ StderrHasOOM
    /\ job.piloterrordiag = <<BA2>>

\* C4: when the stderr file holds the out-of-memory line, PAYLOADOUTOFMEMORY
\* is among the job's error codes once interpret is over, whatever the exit
\* code and the job report.
C4_Claim == PassOver /\ StderrHasOOM => InSeq(PAYLOADOUTOFMEMORY, job.piloterrorcodes)

\* C5: the event-count sources are tried in the order jobReport, xml, summary;
\* a source is tried only when every source before it left no count above 0,
\* and the count a source leaves above 0 is the one the job keeps.
C5_SourceOrder ==
    /\ \A i \in 1..Len(consulted) : consulted[i].source = <<"jobReport", "xml", "summary">>[i]
    /\ \A i \in 1..(Len(consulted) - 1) : consulted[i].nevents <= 0
    /\ PassOver /\ consulted # <<>> => job.nevents = consulted[Len(consulted)].nevents

C5_Witness ==
    /\ pc = "db_info"
    /\ Len(consulted) = 1
    /\ consulted[1].nevents > 0
    /\ wd.xml_events > 0
    /\ wd.summaries # <<>>

DistinctTimes(fl) == \A i, k \in 1..Len(fl) : fl[i].mtime = fl[k].mtime => i = k
OldestOf(fl) == CHOOSE f \in {fl[i] : i \in 1..Len(fl)} :
                    \A i \in 1..Len(fl) : f.mtime <= fl[i].mtime
NewestOf(fl) == CHOOSE f \in {fl[i] : i \in 1..Len(fl)} :
                    \A i \in 1..Len(fl) : f.mtime >= fl[i].mtime

\* C6: for two or more summary files with pairwise distinct modification times
\* find_most_recent_and_oldest_summary_files returns the file of the least time
\* as the oldest and the file of the greatest time as the most recent; for one
\* file it returns that file as both, with equal times.
C6_OldestAndRecent ==
    fout.done =>
        /\ Len(fin) >= 2 /\ DistinctTimes(fin) =>
              /\ fout.res.oldest_summary_file = OldestOf(fin).name
              /\ fout.res.oldest_time = OldestOf(fin).mtime
              /\ fout.res.recent_summary_file = NewestOf(fin).name
              /\ fout.res.recent_time = NewestOf(fin).mtime
        /\ Len(fin) = 1 =>
              /\ fout.res.oldest_summary_file = fin[1].name
              /\ fout.res.recent_summary_file = fin[1].name
              /\ fout.res.oldest_time = fout.res.recent_time

C6_Witness ==
    /\ fout.done
    /\ Len(fin) = 3
    /\ DistinctTimes(fin)
    /\ fin[1].mtime < fin[2].mtime
    /\ fin[3].mtime < fin[1].mtime
    /\ fout.res.oldest_summary_file = fin[3].name

\* C7: for a metrics string of more than 500 characters get_job_metrics returns
\* a strict prefix of at most 500 characters that is made of complete tokens of
\* the string, so that it ends where a space of the string follows.
C7_Truncation ==
    fout.done /\ StrLen(fin) > METRICS_CAP =>
        /\ Len(fout.res) < Len(fin)
        /\ \A i \in 1..Len(fout.res) : fout.res[i] = fin[i]
        /\ StrLen(fout.res) <= METRICS_CAP
        /\ StrLen(fout.res) < StrLen(fin)

C7_Witness ==
    /\ fout.done
    /\ StrLen(fin) > METRICS_CAP
    /\ Len(fin) = 3
    /\ Len(fout.res) = 2
    /\ StrLen(fout.res) < METRICS_CAP - 1

NoArtifacts == ~wd.stdout.exists /\ ~wd.stderr.exists /\ wd.report.state = "absent"

C10_TarballUrl ==
    exit_code = IntV(146) /\ TailHasUrl =>
        /\ job.piloterrorcode = NOUSERTARBALL
        /\ InSeq(NOUSERTARBALL, job.piloterrorcodes)
        /\ InSeq("url", job.piloterrordiag)

C10_Witness ==
    /\ pc = "done"
    /\ exit_code = IntV(146)
    /\ tail(wd.stdout) = <<"url", "nl">>
    /\ job.piloterrordiag = <<"User tarball", "url", "cannot be downloaded from PanDA server">>

\* C11: no exception leaves interpret: whatever a step of the pass raises is
\* caught, and interpret returns normally.
C11_Claim == PassOver => raised = "no"

\* C12: a job report that is not valid JSON is treated as absent: nothing is
\* raised, and the job keeps the exit code, the message and the (empty) report
\* it had.
C12_Claim ==
    wd.report.state = "malformed" /\ PassOver =>
        /\ raised = "no"
        /\ job.metadata = NoReport
        /\ job.exitcode = IntV(wd.entry_exitcode)
        /\ job.exitmsg = EmptyStr

HasEventNumber(n) ==
    \E i \in 1..Len(metrics) : metrics[i].key = "eventnumber" /\ metrics[i].val = n
NoEventNumber == \A i \in 1..Len(metrics) : metrics[i].key # "eventnumber"

\* C13: when the last line of the heartbeat file holds event number N (0
\* included) the metrics string has the entry eventnumber=N; when there is no
\* file or the line does not match there is no eventnumber entry.
C13_Claim ==
    pc = "reported" =>
        IF wd.heartbeat.t = "int" THEN HasEventNumber(wd.heartbeat.n) ELSE NoEventNumber

\* C14: after a pass the job's event counts are not negative.
C14_Claim == PassOver => job.nevents >= 0 /\ job.neventsw >= 0

\* C15: with exit code 146 and a stdout tail that holds no URL, the diagnostic
\* has "(source unknown)" in the place of the URL.
C15_Claim ==
    exit_code = IntV(146) /\ ~TailHasUrl /\ pc \notin {"process_job_report", "special_errors"} =>
        job.piloterrordiag = <<"User tarball", "(source unknown)",
                               "cannot be downloaded from PanDA server">>

\* find_db_info has run in this pass: it has returned, or it has raised
DbInfoOver ==
    \/ pc \in {"exit_info", "done"}
    \/ pc = "raised" /\ raised = "TypeError" /\ FormatsAsD(job.exitcode)

\* the integer a work attribute is coerced to; None when it cannot be
Coerced(v) == IF IntOf(v).exc = "ok" THEN IntV(IntOf(v).n) ELSE None

\* C18: find_db_info stores __db_time and __db_data, coerced to integers, in
\* job.dbtime and job.dbdata; a field whose key is absent or whose value cannot
\* be coerced stays unset, and find_db_info raises nothing.
C18_Claim ==
    npass = 1 /\ wd.report.state = "valid" /\ DbInfoOver =>
        /\ raised = "no"
        /\ job.dbtime = Coerced(wd.report.db_time)
        /\ job.dbdata = Coerced(wd.report.db_data)

\* number of characters of the first i tokens of t
RECURSIVE CharsUpTo(_, _)
CharsUpTo(t, i) == IF i = 0 THEN 0 ELSE TokLen(t[i]) + CharsUpTo(t, i - 1)

\* the tokens of t that lie within its first n characters
WithinPrefix(t, n) == {i \in 1..Len(t) : CharsUpTo(t, i) <= n}

\* the three conditions on the first 1024 characters of the tail
InstallationCondition(t) ==
    /\ t # <<>>
    /\ StartsWithSh(t[1])
    /\ \E i \in WithinPrefix(t, 1024) : HasSetupSh(t[i])
    /\ \E i \in WithinPrefix(t, 1024) : HasNoSuchFile(t[i])

WithTail(w, t) == [w EXCEPT !.stdout.tail = t]

\* C19: when interpret_payload_exit_info has found no out-of-memory error,
\* MISSINGINSTALLATION is recorded exactly when the first 1024 characters of the
\* stdout tail begin with "sh:" and hold "setup.sh" and "No such file or
\* directory"; text added behind the first 1024 characters changes nothing.
C19_InstallationError ==
    pc = "done" /\ ~is_out_of_memory(wd) =>
        LET t == tail(wd.stdout)
        IN /\ InSeq(MISSINGINSTALLATION, recorded) <=> InstallationCondition(t)
           /\ InSeq(MISSINGINSTALLATION, recorded) =>
                 InSeq(MISSINGINSTALLATION, job.piloterrorcodes)
           /\ wd.stdout.exists /\ CharsUpTo(t, Len(t)) >= 1024 =>
                 \A x \in InstallAlphabet :
                     is_installation_error(WithTail(wd, t \o <<x>>))
                         <=> InSeq(MISSINGINSTALLATION, recorded)

C19_Witness ==
    /\ pc = "done"
    /\ ~is_out_of_memory(wd)
    /\ tail(wd.stdout) = <<"sh", "pad", "setupsh", "nosuch">>
    /\ ~InSeq(MISSINGINSTALLATION, recorded)

\* positions of the ERROR entries that have no 'message'
no_message_positions(el) == {i \in 1..Len(el) : el[i] = NOMESSAGE}

\* C20 as stated: a report in which a key of the path
\* executor[0].logfileReport.details.ERROR[*].message is missing, the message
\* of an entry included, gives the empty list.
C20_Original ==
    fout.done /\ (fin.executor \in BrokenPaths \/ no_message_positions(fin.ERROR) # {}) =>
        fout.res = <<>>

\* C20 amended: a report in which a key of the path
\* executor[0].logfileReport.details.ERROR is missing gives the empty list; when
\* an entry of ERROR has no message the result is the messages of the entries
\* ahead of the first such entry, and the empty list only when it is the first
\* entry; otherwise the result is the messages of all the entries.
C20_Amended ==
    fout.done =>
        /\ fin.executor \in BrokenPaths => fout.res = <<>>
        /\ fin.executor = FULLPATH =>
              LET el == fin.ERROR
                  n == IF no_message_positions(el) = {} THEN Len(el)
                       ELSE SetMin(no_message_positions(el)) - 1
              IN fout.res = SubSeq(el, 1, n)

C20_Witness ==
    /\ fout.done
    /\ fin.executor = FULLPATH
    /\ fin.ERROR = <<OTHERMSG, NOMESSAGE, BA1>>
    /\ fout.res = <<OTHERMSG>>

\* the number of the last line of the given kind among the first k lines that
\* is well formed; 0 when there is none
LastOf(lines, k, kind) ==
    LET S == {i \in 1..k : lines[i].kind = kind /\ lines[i].ok}
    IN IF S = {} THEN 0 ELSE lines[SetMax(S)].n

BothFound(lines, k) == LastOf(lines, k, "read") > 0 /\ LastOf(lines, k, "written") > 0

\* C17: the scan of the summary file raises nothing, a malformed line leaving
\* its counter as it was; the counts returned are those found up to the first
\* line after which both are above 0, or up to the end of the file.
C17_Claim ==
    fout.done =>
        /\ fout.res.exc = "ok"
        /\ \E k \in 0..Len(fin.lines) :
              /\ fout.res.n1 = LastOf(fin.lines, k, "read")
              /\ fout.res.n2 = LastOf(fin.lines, k, "written")
              /\ k < Len(fin.lines) => BothFound(fin.lines, k)
              /\ \A j \in 0..(k - 1) : ~BothFound(fin.lines, j)

\* v is a number, or the text of one, that is not zero
NonZeroNumber(v) == FloatOf(v).exc = "ok" /\ FloatOf(v).n # 0

\* v is zero after the conversion int(float(v)), or is not numeric
ZeroOrNotNumeric(v) == FloatOf(v).exc # "ok" \/ IntOfFloat(v) = 0

\* C16: add_features returns normally; hs06 is rescaled only when hs06 and
\* total_cpu are there and are not zero, and never when total_cpu is zero after
\* the conversion or is not numeric.
C16_Claim ==
    fout.done =>
        /\ fout.res.exc = "ok"
        /\ fout.res.rescaled =>
              NonZeroNumber(fin.mf.hs06) /\ NonZeroNumber(fin.mf.total_cpu)
        /\ ZeroOrNotNumeric(fin.mf.total_cpu) => ~fout.res.rescaled

\* process_job_report has raised at its log call for the exit code
ProcessJobReportRaised == pc = "raised" /\ raised = "TypeError" /\ ~FormatsAsD(job.exitcode)

\* C21: with a report that parses, a missing exitCode leaves job.exitcode 0 and
\* a missing exitMsg leaves job.exitmsg the empty string; whatever the values
\* under the two keys, process_job_report raises nothing.
C21_Claim ==
    wd.report.state = "valid" /\ pc # "process_job_report" =>
        /\ wd.report.exitCode.t = "missing" => job.exitcode = IntV(0)
        /\ wd.report.exitMsg.t = "missing" => job.exitmsg = EmptyStr
        /\ ~ProcessJobReportRaised

\* the loop of control has run as the claim says, up to the state reached
ControlInvariant ==
    /\ mon.by_control => mon.runtime >= mon.lifetime
    /\ mon.graceful_stop => mon.by_control \/ mon.external
    /\ mon.at = "returned" => mon.graceful_stop
    /\ ~mon.external =>
          /\ ~mon.by_control => mon.runtime = mon.n /\ mon.runtime <= mon.lifetime
          /\ mon.by_control => mon.runtime = mon.lifetime /\ mon.n = mon.runtime + 1
          /\ mon.at = "returned" => mon.by_control
          /\ mon.at = "while" /\ mon.runtime < mon.lifetime => ~mon.graceful_stop

\* C22: as long as no other thread sets graceful_stop, control adds one to
\* runtime in every iteration in which runtime is below args.lifetime, sets
\* graceful_stop in the first iteration in which it is not, and never before;
\* a thread found not alive sets nothing and ends nothing; the loop is left
\* only with graceful_stop set, and it is left in the end.
C22_ControlLoop == []ControlInvariant /\ <>(mon.at = "returned")

C22_Witness ==
    /\ mon.at = "returned"
    /\ ~mon.external
    /\ mon.dead_thread
    /\ mon.lifetime = 2
    /\ mon.runtime = 2
    /\ mon.n = 3

====
